---- MODULE Spec2Model ----
(***************************************************************************)
(* Model of keta.new.py: the mock news generator fetch_mock_news behind    *)
(* its one-hour st.cache_data memoization, and the Streamlit script that   *)
(* reruns on every widget event, calls the generator and renders the       *)
(* articles sorted by date.                                                *)
(*                                                                         *)
(* Text that the code takes apart (segment keys, query strings, the date   *)
(* strings that pd.to_datetime parses back) is a tuple of one-character    *)
(* strings; text that is only put together (title, source, summary, url)   *)
(* is a string.  Calendar dates are proleptic Gregorian ordinals, as in    *)
(* datetime.date.toordinal().                                              *)
(***************************************************************************)
EXTENDS Integers, Sequences, FiniteSets, TLC

(***************************************************************************)
(* Bounds of the exploration.                                              *)
(***************************************************************************)
MaxStartDay == 1      \* first days tried: ReferenceDay - 16 + 16*k, k in 0..MaxStartDay
MaxTicks    == 2      \* clock advances per behaviour
MaxRuns     == 3      \* script runs per behaviour (Spec)
MaxCalls    == 2      \* direct calls per behaviour (SpecFn)

(***************************************************************************)
(* Text helpers: str.replace, str.lower, str.split(',')[0], str.strip,     *)
(* and f-string formatting of an int.                                      *)
(***************************************************************************)
RECURSIVE Join(_)
Join(s) == IF s = <<>> THEN "" ELSE Head(s) \o Join(Tail(s))

UpperCase == <<"A","B","C","D","E","F","G","H","I","J","K","L","M","N","O","P","Q","R","S","T","U","V","W","X","Y","Z">>
LowerCase == <<"a","b","c","d","e","f","g","h","i","j","k","l","m","n","o","p","q","r","s","t","u","v","w","x","y","z">>
Digits    == <<"0","1","2","3","4","5","6","7","8","9">>
Whitespace == {" ", "\t", "\n", "\r"}

str_replace(s, old, new) == [k \in 1..Len(s) |-> IF s[k] = old THEN new ELSE s[k]]

lower_char(c) ==
    IF \E k \in 1..Len(UpperCase) : UpperCase[k] = c
    THEN LowerCase[CHOOSE k \in 1..Len(UpperCase) : UpperCase[k] = c]
    ELSE c

str_lower(s) == [k \in 1..Len(s) |-> lower_char(s[k])]

\* s.split(sep)[0]: everything before the first sep, or all of s
split_first(s, sep) ==
    IF \E k \in 1..Len(s) : s[k] = sep
    THEN SubSeq(s, 1, (CHOOSE k \in 1..Len(s) :
                          s[k] = sep /\ \A j \in 1..(k - 1) : s[j] # sep) - 1)
    ELSE s

str_strip(s) ==
    LET keep == {k \in 1..Len(s) : s[k] \notin Whitespace}
    IN  IF keep = {} THEN <<>>
        ELSE SubSeq(s, CHOOSE k \in keep : \A j \in keep : k <= j,
                       CHOOSE k \in keep : \A j \in keep : k >= j)

\* decimal digits of a natural number
RECURSIVE str_int(_)
str_int(n) == IF n < 10 THEN <<Digits[n + 1]>>
              ELSE str_int(n \div 10) \o <<Digits[(n % 10) + 1]>>

\* zero padding to width w, as %Y (4), %m and %d (2) do
RECURSIVE zfill(_, _)
zfill(s, w) == IF Len(s) >= w THEN s ELSE zfill(<<"0">> \o s, w)

digit_value(c) == (CHOOSE k \in 1..Len(Digits) : Digits[k] = c) - 1

RECURSIVE int_str(_)
int_str(s) == IF s = <<>> THEN 0
              ELSE int_str(SubSeq(s, 1, Len(s) - 1)) * 10 + digit_value(s[Len(s)])

(***************************************************************************)
(* Calendar: datetime.date ordinals, strftime("%Y-%m-%d"), pd.to_datetime. *)
(***************************************************************************)
DAYS_IN_MONTH     == <<31, 28, 31, 30, 31, 30, 31, 31, 30, 31, 30, 31>>
DAYS_BEFORE_MONTH == <<0, 31, 59, 90, 120, 151, 181, 212, 243, 273, 304, 334>>

is_leap(year) == year % 4 = 0 /\ (year % 100 # 0 \/ year % 400 = 0)

days_before_year(year) ==
    LET y == year - 1 IN y * 365 + (y \div 4) - (y \div 100) + (y \div 400)

ymd2ord(year, month, day) ==
    days_before_year(year) + DAYS_BEFORE_MONTH[month]
        + (IF month > 2 /\ is_leap(year) THEN 1 ELSE 0) + day

\* ordinal -> [year, month, day]
ord2ymd(ordinal) ==
    LET n0   == ordinal - 1
        n400 == n0 \div 146097
        r400 == n0 % 146097
        n100 == r400 \div 36524
        r100 == r400 % 36524
        n4   == r100 \div 1461
        r4   == r100 % 1461
        n1   == r4 \div 365
        n    == r4 % 365
        year == n400 * 400 + 1 + n100 * 100 + n4 * 4 + n1
        leapyear == n1 = 3 /\ (n4 # 24 \/ n100 = 3)
        leap1(m) == IF m > 2 /\ leapyear THEN 1 ELSE 0
        leap2(m) == IF m = 2 /\ leapyear THEN 1 ELSE 0
        month0 == (n + 50) \div 32
        prec0  == DAYS_BEFORE_MONTH[month0] + leap1(month0)
        month  == IF prec0 > n THEN month0 - 1 ELSE month0
        prec   == IF prec0 > n
                  THEN prec0 - (DAYS_IN_MONTH[month] + leap2(month))
                  ELSE prec0
    IN  IF n1 = 4 \/ n100 = 4
        THEN [year |-> year - 1, month |-> 12, day |-> 31]
        ELSE [year |-> year, month |-> month, day |-> n - prec + 1]

\* date.strftime("%Y-%m-%d")
strftime(ordinal) ==
    LET d == ord2ymd(ordinal)
    IN  zfill(str_int(d.year), 4) \o <<"-">> \o zfill(str_int(d.month), 2)
            \o <<"-">> \o zfill(str_int(d.day), 2)

\* pd.to_datetime of a "YYYY-MM-DD" string, as the day it denotes
to_datetime(s) ==
    ymd2ord(int_str(SubSeq(s, 1, 4)), int_str(SubSeq(s, 6, 7)),
            int_str(SubSeq(s, 9, 10)))

(***************************************************************************)
(* Configuration.                                                          *)
(***************************************************************************)
LargeCapFNO == <<"L","a","r","g","e"," ","C","a","p"," ","F","N","O">>
MidCapFNO   == <<"M","i","d"," ","C","a","p"," ","F","N","O">>
SmallCapFNO == <<"S","m","a","l","l"," ","C","a","p"," ","F","N","O">>
AllFNO      == <<"A","l","l"," ","F","N","O">>

\* list(MARKET_SEGMENTS.keys()), in insertion order
SegmentKeys == <<LargeCapFNO, MidCapFNO, SmallCapFNO, AllFNO>>

MARKET_SEGMENTS ==
    [key \in {SegmentKeys[k] : k \in 1..Len(SegmentKeys)} |->
        CASE key = LargeCapFNO ->
               <<"N","i","f","t","y"," ","5","0",","," ","S","e","n","s","e","x",","," ","R","e","l","i","a","n","c","e",","," ","H","D","F","C"," ","B","a","n","k",","," ","L","a","r","g","e"," ","C","a","p"," ","F","N","O"," ","n","e","w","s">>
          [] key = MidCapFNO ->
               <<"N","i","f","t","y"," ","M","i","d","c","a","p"," ","1","0","0",","," ","M","i","d","c","a","p"," ","F","N","O"," ","n","e","w","s">>
          [] key = SmallCapFNO ->
               <<"N","i","f","t","y"," ","S","m","a","l","l","c","a","p"," ","1","0","0",","," ","S","m","a","l","l","c","a","p"," ","F","N","O"," ","n","e","w","s">>
          [] key = AllFNO ->
               <<"I","n","d","i","a","n"," ","F","&","O"," ","m","a","r","k","e","t"," ","n","e","w","s",","," ","d","e","r","i","v","a","t","i","v","e"," ","s","e","g","m","e","n","t">>]

TIMEFRAME_OPTIONS == <<"Last One Week", "Last One Month", "Last Three Months">>

ttl == 3600             \* seconds, st.cache_data(ttl=3600)
num_articles == 5
SecondsPerDay == 86400

(***************************************************************************)
(* fetch_mock_news, the undecorated body.                                  *)
(***************************************************************************)
\* MARKET_SEGMENTS.get(segment_key, ""): a missing key is not an error
search_query_get(segment_key) ==
    IF segment_key \in DOMAIN MARKET_SEGMENTS
    THEN [raised |-> FALSE, query |-> MARKET_SEGMENTS[segment_key]]
    ELSE [raised |-> FALSE, query |-> <<>>]

\* MARKET_SEGMENTS[segment_key]: a missing key raises KeyError
search_query(segment_key) ==
    IF segment_key \in DOMAIN MARKET_SEGMENTS
    THEN [raised |-> FALSE, query |-> MARKET_SEGMENTS[segment_key]]
    ELSE [raised |-> TRUE, query |-> <<>>]

\* the week branch subtracting a month
start_date_week_as_month(today, timeframe) ==
    IF timeframe = "Last One Week" THEN today - 30
    ELSE IF timeframe = "Last One Month" THEN today - 30
    ELSE today - 90

start_date(today, timeframe) ==
    IF timeframe = "Last One Week" THEN today - 7
    ELSE IF timeframe = "Last One Month" THEN today - 30
    ELSE today - 90

\* range(a, b)
range(a, b) == [k \in 1..(IF b > a THEN b - a ELSE 0) |-> a + k - 1]

loop_indices_from_zero == range(0, num_articles + 1)

loop_indices == range(1, num_articles + 1)

article_date_backwards(start, i) == start - i * 5

article_date(start, i) == start + i * 5

source_number_unshifted(i) == i % 3

source_number(i) == (i % 3) + 1

url_slug(segment_key) == Join(str_lower(str_replace(segment_key, " ", "-")))

article(segment_key, query, timeframe, start, i) ==
    [title   |-> "(" \o Join(segment_key) \o ") Market Update: "
                     \o Join(str_strip(split_first(query, ",")))
                     \o " Shows Volatility " \o Join(str_int(i)),
     source  |-> "Financial Times " \o Join(str_int(source_number(i))),
     date    |-> strftime(article_date(start, i)),
     summary |-> "Detailed analysis shows that " \o Join(segment_key)
                     \o " indices experienced a sharp rise followed by a consolidation phase over the "
                     \o timeframe
                     \o " period. Key drivers included FII activity and sector-specific policy changes. The outlook remains cautious.",
     url     |-> "https://mock-news.com/" \o url_slug(segment_key)
                     \o "-" \o Join(str_int(i))]

\* outcome "ok" with the list, or outcome "KeyError"
fetch_body(segment_key, timeframe, today) ==
    LET q == search_query(segment_key)
    IN  IF q.raised
        THEN [outcome |-> "KeyError", value |-> <<>>]
        ELSE [outcome |-> "ok",
              value   |-> [k \in 1..Len(loop_indices) |->
                              article(segment_key, q.query, timeframe,
                                      start_date(today, timeframe),
                                      loop_indices[k])]]

(***************************************************************************)
(* State.                                                                  *)
(***************************************************************************)
VARIABLES
    calendar_day,       \* wall clock: the calendar day, as an ordinal
    tod,                \* wall clock: seconds since midnight
    mono,               \* the monotonic clock the cache's TTL is measured on
    ticks,              \* clock advances so far
    runs,               \* script runs / direct calls so far
    cache,              \* st.cache_data store of fetch_mock_news
    last,               \* the latest call of fetch_mock_news and its outcome
    session_state,      \* st.session_state
    selected_segment,   \* value of the segment selectbox
    selected_timeframe, \* value of the timeframe selectbox
    news_data,          \* news_data of the latest script run
    emitted,            \* the rows handed to the renderer, in order
    view,               \* "NotLoaded", "Showing", "Idle" or "Error"
    event,              \* what caused the latest script run
    message             \* "success", "info" or "none"

clock_vars == <<calendar_day, tod, mono, ticks>>
ui_vars == <<session_state, selected_segment, selected_timeframe, news_data,
             emitted, view, event, message>>
vars == <<calendar_day, tod, mono, ticks, runs, cache, last, session_state,
          selected_segment, selected_timeframe, news_data, emitted, view,
          event, message>>

\* the granularity of the clock: half a TTL
TickSeconds == ttl \div 2

ReferenceDay == ymd2ord(2024, 1, 15)
StartDays  == {ReferenceDay - 16 + 16 * k : k \in 0..MaxStartDay}
StartTimes == {SecondsPerDay \div 2, SecondsPerDay - TickSeconds}

NoCall == [segment_key |-> <<>>, timeframe |-> "", called_on |-> 0,
           outcome |-> "none", value |-> <<>>, hit |-> FALSE, read_today |-> 0]

Init ==
    /\ calendar_day \in StartDays
    /\ tod \in StartTimes
    /\ mono = 0
    /\ ticks = 0
    /\ runs = 0
    /\ cache = [key \in {} |-> <<>>]
    /\ last = NoCall
    /\ session_state = [name \in {} |-> FALSE]
    /\ selected_segment = <<>>
    /\ selected_timeframe = ""
    /\ news_data = <<>>
    /\ emitted = <<>>
    /\ view = "NotLoaded"
    /\ event = "none"
    /\ message = "none"

\* the arguments tried: the valid ones and one invalid one of each
LargeCapEquity == <<"L","a","r","g","e"," ","C","a","p"," ","E","q","u","i","t","y">>

SegmentInputs == {SegmentKeys[k] : k \in 1..Len(SegmentKeys)} \cup {LargeCapEquity}
TimeframeInputs == {TIMEFRAME_OPTIONS[k] : k \in 1..Len(TIMEFRAME_OPTIONS)}
                       \cup {"Last One Year"}

\* fetch_body, tabulated once over the arguments and days a behaviour can reach
Days == {d + k : d \in StartDays, k \in 0..MaxTicks}

fetch_body_table ==
    [a \in SegmentInputs \X TimeframeInputs \X Days |->
        fetch_body(a[1], a[2], a[3])] @@ <<>>

(***************************************************************************)
(* @st.cache_data(ttl=3600): entries are keyed on the arguments and expire *)
(* ttl seconds after they were stored; an exception is not stored.  The    *)
(* field read_today of an entry is history: the day the body read when it  *)
(* computed the value.                                                     *)
(***************************************************************************)
cache_key(segment_key, timeframe) == <<segment_key, timeframe>>

cache_hit(c, key, now) == key \in DOMAIN c /\ now < c[key].stored + ttl

\* the call through the decorator: the call record
fetch_mock_news(c, segment_key, timeframe, now, day) ==
    LET key == cache_key(segment_key, timeframe)
        r   == fetch_body_table[<<segment_key, timeframe, day>>]
    IN  IF cache_hit(c, key, now)
        THEN [segment_key |-> segment_key, timeframe |-> timeframe,
              called_on |-> day, outcome |-> "ok", value |-> c[key].value,
              hit |-> TRUE, read_today |-> c[key].read_today]
        ELSE [segment_key |-> segment_key, timeframe |-> timeframe,
              called_on |-> day, outcome |-> r.outcome, value |-> r.value,
              hit |-> FALSE, read_today |-> day]

\* the store after the call
cache_after(c, call, now) ==
    IF ~call.hit /\ call.outcome = "ok"
    THEN (cache_key(call.segment_key, call.timeframe) :>
             [value |-> call.value, stored |-> now,
              read_today |-> call.read_today]) @@ c
    ELSE c

(***************************************************************************)
(* The script: sidebar, main content.                                      *)
(***************************************************************************)
\* the button handler clearing the flag
button_handler_clears(ss, clicked) ==
    IF clicked THEN ("run_fetch" :> FALSE) @@ ss ELSE ss

\* if st.button(...): st.session_state.run_fetch = True
button_handler(ss, clicked) ==
    IF clicked THEN ("run_fetch" :> TRUE) @@ ss ELSE ss

\* if 'run_fetch' not in st.session_state: st.session_state.run_fetch = True
default_run_fetch(ss) ==
    IF "run_fetch" \notin DOMAIN ss THEN ("run_fetch" :> TRUE) @@ ss ELSE ss

\* df = pd.DataFrame(news_data); df['date'] = pd.to_datetime(df['date'])
data_frame(news) ==
    [k \in 1..Len(news) |-> [news[k] EXCEPT !.date = to_datetime(@)]]

\* orders of the rows idx that a sort by date, ascending, can produce
RECURSIVE ascending_orders(_, _)
ascending_orders(df, idx) ==
    IF idx = {} THEN {<<>>}
    ELSE UNION {{<<i>> \o t : t \in ascending_orders(df, idx \ {i})} :
                  i \in {i \in idx : \A j \in idx : df[i].date <= df[j].date}}

\* orders of the rows idx that a sort by date, descending, can produce;
\* rows of equal date come in any order
RECURSIVE descending_orders(_, _)
descending_orders(df, idx) ==
    IF idx = {} THEN {<<>>}
    ELSE UNION {{<<i>> \o t : t \in descending_orders(df, idx \ {i})} :
                  i \in {i \in idx : \A j \in idx : df[i].date >= df[j].date}}

sort_values_ascending(df) ==
    {[k \in 1..Len(df) |-> df[o[k]]] : o \in ascending_orders(df, DOMAIN df)}

\* df.sort_values(by='date', ascending=False): the possible results
sort_values(df) ==
    {[k \in 1..Len(df) |-> df[o[k]]] : o \in descending_orders(df, DOMAIN df)}

\* one run of the script with the widgets' values
Script(segment, timeframe, clicked) ==
    LET ss   == default_run_fetch(button_handler(session_state, clicked))
        call == fetch_mock_news(cache, segment, timeframe, mono, calendar_day)
    IN  /\ runs < MaxRuns
        /\ runs' = runs + 1
        /\ selected_segment' = segment
        /\ selected_timeframe' = timeframe
        /\ session_state' = ss
        /\ IF ss["run_fetch"]
           THEN /\ last' = call
                /\ cache' = cache_after(cache, call, mono)
                /\ IF call.outcome # "ok"
                   THEN /\ view' = "Error"
                        /\ message' = "none"
                        /\ UNCHANGED <<news_data, emitted>>
                   ELSE /\ view' = "Showing"
                        /\ news_data' = call.value
                        /\ IF call.value # <<>>
                           THEN /\ emitted' \in sort_values(data_frame(call.value))
                                /\ message' = "success"
                           ELSE /\ emitted' = <<>>
                                /\ message' = "info"
           ELSE /\ view' = "Idle"
                /\ message' = "none"
                /\ UNCHANGED <<last, cache, news_data, emitted>>
        /\ UNCHANGED clock_vars

\* first load: both selectboxes at their default index, button not clicked
FirstLoad ==
    /\ view = "NotLoaded"
    /\ Script(SegmentKeys[1], TIMEFRAME_OPTIONS[2], FALSE)
    /\ event' = "load"

ChangeSegment ==
    /\ view # "NotLoaded"
    /\ \E k \in 1..Len(SegmentKeys) :
          /\ SegmentKeys[k] # selected_segment
          /\ Script(SegmentKeys[k], selected_timeframe, FALSE)
    /\ event' = "segment"

ChangeTimeframe ==
    /\ view # "NotLoaded"
    /\ \E k \in 1..Len(TIMEFRAME_OPTIONS) :
          /\ TIMEFRAME_OPTIONS[k] # selected_timeframe
          /\ Script(selected_segment, TIMEFRAME_OPTIONS[k], FALSE)
    /\ event' = "timeframe"

ClickFetch ==
    /\ view # "NotLoaded"
    /\ Script(selected_segment, selected_timeframe, TRUE)
    /\ event' = "click"

\* time passes: both clocks advance by one tick
Tick ==
    /\ ticks < MaxTicks
    /\ ticks' = ticks + 1
    /\ mono' = mono + TickSeconds
    /\ tod' = (tod + TickSeconds) % SecondsPerDay
    /\ calendar_day' = calendar_day + ((tod + TickSeconds) \div SecondsPerDay)
    /\ UNCHANGED <<runs, cache, last>>
    /\ UNCHANGED ui_vars

Next == FirstLoad \/ ChangeSegment \/ ChangeTimeframe \/ ClickFetch \/ Tick

Spec == Init /\ [][Next]_vars

(***************************************************************************)
(* fetch_mock_news called directly, with any argument.                     *)
(***************************************************************************)
Call ==
    /\ runs < MaxCalls
    /\ \E segment_key \in SegmentInputs, timeframe \in TimeframeInputs :
          LET call == fetch_mock_news(cache, segment_key, timeframe, mono, calendar_day)
          IN  /\ last' = call
              /\ cache' = cache_after(cache, call, mono)
    /\ runs' = runs + 1
    /\ UNCHANGED clock_vars
    /\ UNCHANGED ui_vars

NextFn == Call \/ Tick

SpecFn == Init /\ [][NextFn]_vars

(***************************************************************************)
(* Properties.                                                             *)
(***************************************************************************)
ValidSegments   == {LargeCapFNO, MidCapFNO, SmallCapFNO, AllFNO}
ValidTimeframes == {"Last One Week", "Last One Month", "Last Three Months"}

\* the latest call had a valid segment key and a valid timeframe label
ValidCall ==
    /\ last.outcome # "none"
    /\ last.segment_key \in ValidSegments
    /\ last.timeframe \in ValidTimeframes

\* the day offset the three labels stand for
offset_days(timeframe) ==
    CASE timeframe = "Last One Week" -> 7
      [] timeframe = "Last One Month" -> 30
      [] timeframe = "Last Three Months" -> 90

\* the day an article's date string denotes
DateOf(a) == to_datetime(a.date)

\* C1: a call with one of the 4 segment keys and one of the 3 timeframe
\* labels, on any day, returns a list of exactly 5 articles.
C1_FiveArticles ==
    ValidCall => last.outcome = "ok" /\ Len(last.value) = 5

C1_Witness ==
    /\ ValidCall
    /\ last.segment_key = AllFNO
    /\ last.timeframe = "Last One Week"
    /\ Len(last.value) = 5

\* C2: a call with a valid segment key and a timeframe label that is not one
\* of the three fails instead of returning articles.
C2_InvalidTimeframeFails ==
    (/\ last.outcome # "none"
     /\ last.segment_key \in ValidSegments
     /\ last.timeframe \notin ValidTimeframes) => last.outcome # "ok"

\* C3: a call with a segment key that is not one of the four, for any
\* timeframe, ends in an error and returns no list; nothing is cached for it.
C3_InvalidSegmentRaises ==
    /\ (last.outcome # "none" /\ last.segment_key \notin ValidSegments)
          => (last.outcome = "KeyError" /\ ~last.hit)
    /\ \A key \in DOMAIN cache : key[1] \in ValidSegments

C3_Witness ==
    /\ last.segment_key = LargeCapEquity
    /\ last.timeframe = "Last One Week"
    /\ last.outcome = "KeyError"

\* C4: when the script renders articles, the rows emitted are a permutation
\* of the generator's list and every adjacent pair (a, b) has a.date >= b.date.
C4_EmittedSortedDescending ==
    message = "success" =>
        /\ Len(emitted) = Len(news_data)
        /\ \A k \in 1..Len(emitted) :
              Cardinality({j \in 1..Len(emitted) : emitted[j] = emitted[k]})
                = Cardinality({j \in 1..Len(news_data) :
                      /\ DateOf(news_data[j]) = emitted[k].date
                      /\ news_data[j].title = emitted[k].title
                      /\ news_data[j].source = emitted[k].source
                      /\ news_data[j].summary = emitted[k].summary
                      /\ news_data[j].url = emitted[k].url})
        /\ \A k \in 1..(Len(emitted) - 1) : emitted[k].date >= emitted[k + 1].date

C4_Witness ==
    /\ message = "success"
    /\ Len(emitted) = 5
    /\ emitted[1].date > emitted[5].date
    /\ emitted[1].url = news_data[5].url
    /\ selected_timeframe = "Last One Week"

\* C5: for a valid call on day today, every date d returned satisfies
\* d > today - (offset_days + 1) and d <= today - 1 + 25.
C5_DatesInWindow ==
    ValidCall =>
        \A k \in 1..Len(last.value) :
            /\ DateOf(last.value[k]) > last.called_on - (offset_days(last.timeframe) + 1)
            /\ DateOf(last.value[k]) <= last.called_on - 1 + 25

C5_Witness ==
    /\ ValidCall
    /\ last.timeframe = "Last One Week"
    /\ Len(last.value) = 5
    /\ DateOf(last.value[5]) = last.called_on + 18

\* C6: two calls with the same arguments on the same calendar day return
\* identical lists, whether the second is served from the cache or recomputed.
C6_SameDaySameList ==
    [][(/\ runs' = runs + 1
        /\ last.outcome = "ok"
        /\ last'.outcome = "ok"
        /\ last'.segment_key = last.segment_key
        /\ last'.timeframe = last.timeframe
        /\ last'.called_on = last.called_on) => last'.value = last.value]_vars

\* what C7 expects of the text fields
ExpectedName(segment_key) ==
    CASE segment_key = LargeCapFNO -> "Large Cap FNO"
      [] segment_key = MidCapFNO -> "Mid Cap FNO"
      [] segment_key = SmallCapFNO -> "Small Cap FNO"
      [] segment_key = AllFNO -> "All FNO"

ExpectedFirstPart(segment_key) ==
    CASE segment_key = LargeCapFNO -> "Nifty 50"
      [] segment_key = MidCapFNO -> "Nifty Midcap 100"
      [] segment_key = SmallCapFNO -> "Nifty Smallcap 100"
      [] segment_key = AllFNO -> "Indian F&O market news"

ExpectedSlug(segment_key) ==
    CASE segment_key = LargeCapFNO -> "large-cap-fno"
      [] segment_key = MidCapFNO -> "mid-cap-fno"
      [] segment_key = SmallCapFNO -> "small-cap-fno"
      [] segment_key = AllFNO -> "all-fno"

ExpectedIndex  == <<"1", "2", "3", "4", "5">>
ExpectedSource == <<"2", "3", "1", "2", "3">>

C8_NeverIdle ==
    /\ view # "Idle"
    /\ runs >= 1 =>
          /\ view = "Showing"
          /\ "run_fetch" \in DOMAIN session_state
          /\ session_state["run_fetch"]

C8_Witness ==
    /\ event = "click"
    /\ runs >= 2
    /\ view = "Showing"
    /\ session_state["run_fetch"]

\* C9: for Last One Week the articles dated after today are exactly those of
\* index 2..5; for Last One Month and Last Three Months none is.
C9_FutureDates ==
    ValidCall =>
        LET future == {i \in 1..Len(last.value) :
                          DateOf(last.value[i]) > last.called_on}
        IN  IF last.timeframe = "Last One Week"
            THEN future = {2, 3, 4, 5}
            ELSE future = {}

C9_Witness ==
    /\ ValidCall
    /\ last.timeframe = "Last One Week"
    /\ DateOf(last.value[1]) < last.called_on
    /\ DateOf(last.value[2]) > last.called_on

\* C10: every call through the cache returns the list an uncached
\* computation would return at the moment of the call.
C10_CacheTransparent ==
    last.outcome # "none" =>
        /\ last.outcome = fetch_body(last.segment_key, last.timeframe, last.called_on).outcome
        /\ last.value = fetch_body(last.segment_key, last.timeframe, last.called_on).value
====
